---- MODULE Spec2Model ----
(***************************************************************************)
(* Ownership-transfer protocol of utils/memory.hpp: unique_handle,         *)
(* generic_unique_ptr and generic_shared_ptr over a caller-supplied        *)
(* deleter / reference-counting policy.                                    *)
(*                                                                         *)
(* A wrapper is named <<kind, index>>.  Every operation is one action; it  *)
(* leaves in `last` what was called, on which wrappers, with which values, *)
(* what it returned and the policy callbacks it made, in order.  `last` is *)
(* cleared when the caller goes on to its next statement.                  *)
(* unique_handle and the pointer wrappers share no state, so a behaviour   *)
(* instantiates one of the two template families (variable `family`).      *)
(***************************************************************************)
EXTENDS Integers, Sequences, FiniteSets, TLC

\* ---- bounds ----
NumSlots == 2
MaxHandle == 2
MaxPtr == 2
MaxHeld == 1

\* ---- values ----
\* HandleDeleter::null of the documented POSIX policy
HandleNull == -1
nullptr == 0
Handles == 0 .. (MaxHandle - 1)
Ptrs == 1 .. MaxPtr
None == <<"none", 0>>
HandleWrappers == {<<"handle", i>> : i \in 1 .. NumSlots}
UniqueWrappers == {<<"unique", i>> : i \in 1 .. NumSlots}
SharedWrappers == {<<"shared", i>> : i \in 1 .. NumSlots}
PtrWrappers == UniqueWrappers \cup SharedWrappers

\* hHeld: the open handles the caller holds raw (from open() or release())
VARIABLES family, hLive, obj, open, hAliased, hHeld, pLive, ptr, refs, held, last

vars == <<family, hLive, obj, open, hAliased, hHeld, pLive, ptr, refs, held, last>>
hvars == <<hLive, obj, open, hAliased, hHeld>>
pvars == <<pLive, ptr, refs, held>>

\* ---- policy callbacks ----
Call(f, a) == [f |-> f, arg |-> a]

\* HandleDeleter::release closes the resource behind the handle
HandleDeleter_release(o, h) == o \ {h}

\* GenericDeleter of a counting policy (g_object_ref / g_object_unref)
GenericDeleter_add_ref(r, q) == [r EXCEPT ![q] = @ + 1]
GenericDeleter_release(r, q) == [r EXCEPT ![q] = @ - 1]
GenericDeleter_use_count(r, q) == r[q]

RECURSIVE HandlePolicy(_, _)
HandlePolicy(calls, o) ==
    IF calls = <<>> THEN o
    ELSE HandlePolicy(Tail(calls), HandleDeleter_release(o, Head(calls).arg))

RECURSIVE PtrPolicy(_, _)
PtrPolicy(calls, r) ==
    IF calls = <<>> THEN r
    ELSE LET c == Head(calls)
             r1 == IF c.f = "add_ref" THEN GenericDeleter_add_ref(r, c.arg)
                   ELSE IF c.f = "release" THEN GenericDeleter_release(r, c.arg)
                   ELSE r
         IN PtrPolicy(Tail(calls), r1)

Op(op, a, b, arg, pre, preb, ret, calls) ==
    [op |-> op, a |-> a, b |-> b, arg |-> arg, pre |-> pre, preb |-> preb,
     ret |-> ret, calls |-> calls, seen |-> <<>>]

\* ---- the caller's position ----
\* `last` is the operation of the statement just executed; between statements
\* it is NoOp.  After a statement the caller either goes on to the next one
\* (NextStatement), or the wrapper it operated on goes out of scope at once
\* (the destructor runs as the very next operation).
NoOp == Op("none", None, None, 0, 0, 0, 0, <<>>)

Ready == last.op = "none"

\* a failure of the policy's add_ref has left the statement; the run is
\* followed up to the end of the failing statement
Thrown == last.op \in {"copy_ctor_throws", "copy_assign_throws"}

ScopeEnds(w) == Ready \/ (last.a = w /\ last.op # "dtor" /\ ~ Thrown)

\* NumSlots wrappers can be alive at a time, of whatever kind
Free(w) == \A v \in hLive \cup pLive : v[2] # w[2]

NextStatement ==
    /\ ~ Ready
    /\ ~ Thrown
    /\ last' = NoOp
    /\ UNCHANGED <<family, hvars, pvars>>

\* ---- unique_handle: member functions as functions of the stored value ----
unique_handle_get(o) == o

unique_handle_bool(o) == o # HandleNull

unique_handle_release(o) ==
    [obj |-> HandleNull, ret |-> o, calls |-> <<>>]

\* faulty variant: the old handle is released but stays stored
unique_handle_reset_keeps(o, new_obj) ==
    [obj |-> IF new_obj = HandleNull THEN o ELSE new_obj,
     calls |-> IF o # HandleNull THEN <<Call("release", o)>> ELSE <<>>]

unique_handle_reset(o, new_obj) ==
    [obj |-> new_obj,
     calls |-> IF o # HandleNull THEN <<Call("release", o)>> ELSE <<>>]

\* faulty variant: the destructor forgets the policy
unique_handle_dtor_no_release(o) == [calls |-> <<>>]

unique_handle_dtor(o) ==
    [calls |-> IF o # HandleNull THEN <<Call("release", o)>> ELSE <<>>]

unique_handle_ctor(o) == [obj |-> o, calls |-> <<>>]

unique_handle_move_ctor(other) ==
    [obj |-> other, other |-> HandleNull, calls |-> <<>>]

\* faulty variant: this->reset(other.get()), the source keeps its handle
unique_handle_move_assign_get(this, other, same) ==
    LET s == unique_handle_reset(this, other)
    IN [obj |-> s.obj, other |-> s.obj, calls |-> s.calls]

\* this->reset(other.release()); `same` tells that other is *this
unique_handle_move_assign(this, other, same) ==
    LET r == unique_handle_release(other)
        mine == IF same THEN r.obj ELSE this
        s == unique_handle_reset(mine, r.ret)
    IN [obj |-> s.obj, other |-> IF same THEN s.obj ELSE r.obj,
        calls |-> r.calls \o s.calls]

unique_handle_swap(a, b) == [a |-> b, b |-> a, calls |-> <<>>]

\* ---- unique_handle: the environment and the operations ----
HAliasing(v) == v # HandleNull /\ \E w \in hLive : obj[w] = v

\* open(...): the system hands out a handle that is not in use
Open(h) ==
    /\ family = "handle"
    /\ Ready
    /\ h \notin open
    /\ open' = open \cup {h}
    /\ hHeld' = hHeld \cup {h}
    /\ last' = Op("open", None, None, h, HandleNull, HandleNull, HandleNull, <<>>)
    /\ UNCHANGED <<family, hLive, obj, hAliased, pvars>>

HDefaultCtor(w) ==
    /\ family = "handle"
    /\ Ready
    /\ Free(w)
    /\ hLive' = hLive \cup {w}
    /\ obj' = [obj EXCEPT ![w] = HandleNull]
    /\ last' = Op("default_ctor", w, None, HandleNull, HandleNull, HandleNull, HandleNull, <<>>)
    /\ UNCHANGED <<family, open, hAliased, hHeld, pvars>>

HCtor(w, v) ==
    /\ family = "handle"
    /\ Ready
    /\ Free(w)
    /\ v = HandleNull \/ v \in open
    /\ LET c == unique_handle_ctor(v)
       IN /\ hLive' = hLive \cup {w}
          /\ obj' = [obj EXCEPT ![w] = c.obj]
          /\ open' = HandlePolicy(c.calls, open)
          /\ last' = Op("ctor", w, None, v, HandleNull, HandleNull, HandleNull, c.calls)
    /\ hHeld' = hHeld \ {v}
    /\ hAliased' = (hAliased \/ HAliasing(v))
    /\ UNCHANGED <<family, pvars>>

HMoveCtor(w, o) ==
    /\ family = "handle"
    /\ Ready
    /\ Free(w)
    /\ o \in hLive
    /\ LET m == unique_handle_move_ctor(obj[o])
       IN /\ hLive' = hLive \cup {w}
          /\ obj' = [obj EXCEPT ![w] = m.obj, ![o] = m.other]
          /\ open' = HandlePolicy(m.calls, open)
          /\ last' = Op("move_ctor", w, o, HandleNull, HandleNull, obj[o], HandleNull, m.calls)
    /\ UNCHANGED <<family, hAliased, hHeld, pvars>>

HMoveAssign(w, o) ==
    /\ family = "handle"
    /\ Ready
    /\ w \in hLive
    /\ o \in hLive
    /\ LET m == unique_handle_move_assign(obj[w], obj[o], w = o)
       IN /\ obj' = [[obj EXCEPT ![o] = m.other] EXCEPT ![w] = m.obj]
          /\ open' = HandlePolicy(m.calls, open)
          /\ last' = Op("move_assign", w, o, HandleNull, obj[w], obj[o], HandleNull, m.calls)
    /\ UNCHANGED <<family, hLive, hAliased, hHeld, pvars>>

HAssignNull(w) ==
    /\ family = "handle"
    /\ Ready
    /\ w \in hLive
    /\ LET s == unique_handle_reset(obj[w], HandleNull)
       IN /\ obj' = [obj EXCEPT ![w] = s.obj]
          /\ open' = HandlePolicy(s.calls, open)
          /\ last' = Op("assign_null", w, None, HandleNull, obj[w], HandleNull, HandleNull, s.calls)
    /\ UNCHANGED <<family, hLive, hAliased, hHeld, pvars>>

HRelease(w) ==
    /\ family = "handle"
    /\ Ready
    /\ w \in hLive
    /\ LET r == unique_handle_release(obj[w])
       IN /\ obj' = [obj EXCEPT ![w] = r.obj]
          /\ open' = HandlePolicy(r.calls, open)
          /\ hHeld' = hHeld \cup ({r.ret} \ {HandleNull})
          /\ last' = Op("release", w, None, HandleNull, obj[w], HandleNull, r.ret, r.calls)
    /\ UNCHANGED <<family, hLive, hAliased, pvars>>

HReset(w, v) ==
    /\ family = "handle"
    /\ Ready
    /\ w \in hLive
    /\ v = HandleNull \/ v \in open
    /\ LET s == unique_handle_reset(obj[w], v)
       IN /\ obj' = [obj EXCEPT ![w] = s.obj]
          /\ open' = HandlePolicy(s.calls, open)
          /\ last' = Op("reset", w, None, v, obj[w], HandleNull, HandleNull, s.calls)
    /\ hHeld' = hHeld \ {v}
    /\ hAliased' = (hAliased \/ HAliasing(v))
    /\ UNCHANGED <<family, hLive, pvars>>

HDtor(w) ==
    /\ family = "handle"
    /\ ScopeEnds(w)
    /\ w \in hLive
    /\ LET d == unique_handle_dtor(obj[w])
       IN /\ hLive' = hLive \ {w}
          /\ obj' = [obj EXCEPT ![w] = HandleNull]
          /\ open' = HandlePolicy(d.calls, open)
          /\ last' = Op("dtor", w, None, HandleNull, obj[w], HandleNull, HandleNull, d.calls)
    /\ UNCHANGED <<family, hAliased, hHeld, pvars>>

HSwap(w, o) ==
    /\ family = "handle"
    /\ Ready
    /\ w \in hLive
    /\ o \in hLive
    /\ LET s == unique_handle_swap(obj[w], obj[o])
       IN /\ obj' = [[obj EXCEPT ![o] = s.b] EXCEPT ![w] = s.a]
          /\ open' = HandlePolicy(s.calls, open)
          /\ last' = Op("swap", w, o, HandleNull, obj[w], obj[o], HandleNull, s.calls)
    /\ UNCHANGED <<family, hLive, hAliased, hHeld, pvars>>

HNext ==
    \/ \E h \in Handles : Open(h)
    \/ \E w \in HandleWrappers : HDefaultCtor(w)
    \/ \E w \in HandleWrappers, v \in Handles \cup {HandleNull} : HCtor(w, v)
    \/ \E w, o \in HandleWrappers : HMoveCtor(w, o)
    \/ \E w, o \in HandleWrappers : HMoveAssign(w, o)
    \/ \E w \in HandleWrappers : HAssignNull(w)
    \/ \E w \in HandleWrappers : HRelease(w)
    \/ \E w \in HandleWrappers, v \in Handles \cup {HandleNull} : HReset(w, v)
    \/ \E w \in HandleWrappers : HDtor(w)
    \/ \E w, o \in HandleWrappers : HSwap(w, o)

\* ---- generic_smart_ptr: member functions as functions of the stored pointer ----
generic_smart_ptr_get(q) == q

generic_smart_ptr_bool(q) == q # nullptr

\* faulty variant: release() gives the pointer back to the policy
generic_smart_ptr_release_deletes(q) ==
    [p |-> nullptr, ret |-> q,
     calls |-> IF q # nullptr THEN <<Call("release", q)>> ELSE <<>>]

generic_smart_ptr_release(q) ==
    [p |-> nullptr, ret |-> q, calls |-> <<>>]

\* faulty variant: the old pointer is dropped without release
generic_smart_ptr_reset_leak(q, new_ptr) ==
    [p |-> new_ptr, calls |-> <<>>, seen |-> <<>>]

\* faulty variant: release(_p) is called before _p = ptr
generic_smart_ptr_reset_release_first(q, new_ptr) ==
    [p |-> new_ptr,
     calls |-> IF q # nullptr THEN <<Call("release", q)>> ELSE <<>>,
     seen |-> IF q # nullptr THEN <<generic_smart_ptr_get(q)>> ELSE <<>>]

\* seen: what get() of this wrapper returns while each callback runs
generic_smart_ptr_reset(q, new_ptr) ==
    LET old_ptr == q
        p1 == new_ptr
    IN [p |-> p1,
        calls |-> IF old_ptr # nullptr THEN <<Call("release", old_ptr)>> ELSE <<>>,
        seen |-> IF old_ptr # nullptr THEN <<generic_smart_ptr_get(p1)>> ELSE <<>>]

\* faulty variant: the destructor forgets the policy
generic_smart_ptr_dtor_no_release(q) == [calls |-> <<>>, seen |-> <<>>]

generic_smart_ptr_dtor(q) ==
    [calls |-> IF q # nullptr THEN <<Call("release", q)>> ELSE <<>>,
     seen |-> IF q # nullptr THEN <<generic_smart_ptr_get(q)>> ELSE <<>>]

\* faulty variant: a takes b's pointer, b keeps it
generic_smart_ptr_swap_copy(a, b) == [a |-> b, b |-> b, calls |-> <<>>]

generic_smart_ptr_swap(a, b) == [a |-> b, b |-> a, calls |-> <<>>]

\* faulty variant: this->reset(other.get()), the source keeps its pointer
generic_smart_ptr_move_assign_get(this, other, same) ==
    LET s == generic_smart_ptr_reset(this, other)
    IN [p |-> s.p, other |-> s.p, calls |-> s.calls]

\* faulty variant: this->reset(other.get()); other.release();
generic_smart_ptr_move_assign_reset_first(this, other, same) ==
    LET s == generic_smart_ptr_reset(this, other)
        r == generic_smart_ptr_release(other)
    IN [p |-> IF same THEN r.p ELSE s.p, other |-> r.p,
        calls |-> s.calls \o r.calls]

\* this->reset(other.release()); `same` tells that other is *this
generic_smart_ptr_move_assign(this, other, same) ==
    LET r == generic_smart_ptr_release(other)
        mine == IF same THEN r.p ELSE this
        s == generic_smart_ptr_reset(mine, r.ret)
    IN [p |-> s.p, other |-> IF same THEN s.p ELSE r.p,
        calls |-> r.calls \o s.calls]

\* faulty variant: the old pointer is released without a null check
generic_smart_ptr_assign_null_unchecked(q) ==
    [p |-> nullptr, calls |-> <<Call("release", q)>>]

generic_smart_ptr_assign_null(q) == generic_smart_ptr_reset(q, nullptr)

generic_smart_ptr_ctor(q) == [p |-> q, calls |-> <<>>]

\* faulty variant: the source is not cleared
generic_smart_ptr_move_ctor_keeps_source(other) ==
    [p |-> other, other |-> other, calls |-> <<>>]

\* faulty variant: the move takes a reference as a copy would
generic_smart_ptr_move_ctor_add_ref(other) ==
    [p |-> other, other |-> nullptr,
     calls |-> IF other # nullptr THEN <<Call("add_ref", other)>> ELSE <<>>]

generic_smart_ptr_move_ctor(other) ==
    [p |-> other, other |-> nullptr, calls |-> <<>>]

\* operator==(a, nullptr), operator==(nullptr, a): return !!a
eq_nullptr_right(q) == ~ ~ generic_smart_ptr_bool(q)
eq_nullptr_left(q) == ~ ~ generic_smart_ptr_bool(q)
\* operator!=(a, nullptr), operator!=(nullptr, a): return !a
ne_nullptr_right(q) == ~ generic_smart_ptr_bool(q)
ne_nullptr_left(q) == ~ generic_smart_ptr_bool(q)

\* ---- generic_shared_ptr ----
\* faulty variant: the copy takes no reference
generic_shared_ptr_copy_ctor_no_add_ref(other) ==
    generic_smart_ptr_ctor(generic_smart_ptr_get(other))

\* faulty variant: the base is built as a copy and the body adds a reference again
generic_shared_ptr_copy_ctor_twice(other) ==
    LET c == IF other # nullptr THEN <<Call("add_ref", other)>> ELSE <<>>
    IN [p |-> other, calls |-> c \o c]

generic_shared_ptr_copy_ctor(other) ==
    LET b == generic_smart_ptr_ctor(generic_smart_ptr_get(other))
    IN [p |-> b.p,
        calls |-> b.calls \o
                  (IF generic_smart_ptr_get(b.p) # nullptr
                   THEN <<Call("add_ref", generic_smart_ptr_get(b.p))>> ELSE <<>>)]

\* faulty variant: the old pointer of *this is never released
generic_shared_ptr_copy_assign_leak(this, other) ==
    LET tmp == generic_shared_ptr_copy_ctor(other)
    IN [p |-> tmp.p, calls |-> tmp.calls]

\* faulty variant: the old pointer is released before the copy is made
generic_shared_ptr_copy_assign_release_first(this, other) ==
    LET d == generic_smart_ptr_dtor(this)
        tmp == generic_shared_ptr_copy_ctor(other)
    IN [p |-> tmp.p, calls |-> d.calls \o tmp.calls]

\* generic_shared_ptr(other).swap(*this); the temporary dies at the end
generic_shared_ptr_copy_assign(this, other) ==
    LET tmp == generic_shared_ptr_copy_ctor(other)
        s == generic_smart_ptr_swap(tmp.p, this)
        d == generic_smart_ptr_dtor(s.a)
    IN [p |-> s.b, calls |-> tmp.calls \o s.calls \o d.calls]

\* the copy constructor when add_ref raises a failure: the base is already
\* constructed with other's pointer, the failure leaves the constructor body,
\* and the base destructor runs on the way out.  The failed add_ref itself
\* leaves the count as it was.
generic_shared_ptr_copy_ctor_throws(other) ==
    LET b == generic_smart_ptr_ctor(generic_smart_ptr_get(other))
        d == generic_smart_ptr_dtor(b.p)
    IN [calls |-> b.calls \o <<Call("add_ref_failed", generic_smart_ptr_get(b.p))>>
                  \o d.calls]

\* copy assignment when the temporary's add_ref raises a failure: swap is
\* never reached
generic_shared_ptr_copy_assign_throws(this, other) ==
    LET tmp == generic_shared_ptr_copy_ctor_throws(other)
    IN [p |-> this, calls |-> tmp.calls]

generic_shared_ptr_use_count(r, q) ==
    [ret |-> GenericDeleter_use_count(r, q), calls |-> <<Call("use_count", q)>>]

\* faulty variant: the new wrapper takes no reference
static_pointer_cast_no_add_ref(q) == generic_smart_ptr_ctor(generic_smart_ptr_get(q))

static_pointer_cast(q) ==
    LET ret_ptr == generic_smart_ptr_get(q)
        c == IF ret_ptr # nullptr THEN <<Call("add_ref", ret_ptr)>> ELSE <<>>
        n == generic_smart_ptr_ctor(ret_ptr)
    IN [p |-> n.p, calls |-> c \o n.calls]

const_pointer_cast(q) ==
    LET ret_ptr == generic_smart_ptr_get(q)
        c == IF ret_ptr # nullptr THEN <<Call("add_ref", ret_ptr)>> ELSE <<>>
        n == generic_smart_ptr_ctor(ret_ptr)
    IN [p |-> n.p, calls |-> c \o n.calls]

\* ---- pointer wrappers: the environment and the operations ----
Kind(w) == w[1]

Holders(q) == {w \in pLive : ptr[w] = q}

\* the caller hands over one reference it owns; an exclusive wrapper is
\* given only a pointer that no wrapper holds
Owned(w, q) ==
    \/ q = nullptr
    \/ /\ q # nullptr
       /\ held[q] > 0
       /\ Kind(w) = "unique" => Holders(q) = {}

Give(q) == IF q = nullptr THEN held ELSE [held EXCEPT ![q] = @ - 1]
Take(q) == IF q = nullptr THEN held ELSE [held EXCEPT ![q] = @ + 1]

\* g_object_new / g_object_ref by the caller: one more reference, owned raw
Acquire(q) ==
    /\ family = "pointer"
    /\ Ready
    /\ held[q] < MaxHeld
    /\ refs' = GenericDeleter_add_ref(refs, q)
    /\ held' = Take(q)
    /\ last' = Op("acquire", None, None, q, nullptr, nullptr, nullptr, <<>>)
    /\ UNCHANGED <<family, pLive, ptr, hvars>>

PDefaultCtor(w) ==
    /\ family = "pointer"
    /\ Ready
    /\ Free(w)
    /\ pLive' = pLive \cup {w}
    /\ ptr' = [ptr EXCEPT ![w] = nullptr]
    /\ last' = Op("default_ctor", w, None, nullptr, nullptr, nullptr, nullptr, <<>>)
    /\ UNCHANGED <<family, refs, held, hvars>>

PCtor(w, q) ==
    /\ family = "pointer"
    /\ Ready
    /\ Free(w)
    /\ Owned(w, q)
    /\ LET c == generic_smart_ptr_ctor(q)
       IN /\ pLive' = pLive \cup {w}
          /\ ptr' = [ptr EXCEPT ![w] = c.p]
          /\ refs' = PtrPolicy(c.calls, refs)
          /\ last' = Op("ctor", w, None, q, nullptr, nullptr, nullptr, c.calls)
    /\ held' = Give(q)
    /\ UNCHANGED <<family, hvars>>

\* unique from unique, shared from shared, shared from unique
Movable(w, o) == Kind(w) = Kind(o) \/ (Kind(w) = "shared" /\ Kind(o) = "unique")

PMoveCtor(w, o) ==
    /\ family = "pointer"
    /\ Ready
    /\ Free(w)
    /\ o \in pLive
    /\ Movable(w, o)
    /\ LET m == generic_smart_ptr_move_ctor(ptr[o])
       IN /\ pLive' = pLive \cup {w}
          /\ ptr' = [ptr EXCEPT ![w] = m.p, ![o] = m.other]
          /\ refs' = PtrPolicy(m.calls, refs)
          /\ last' = Op("move_ctor", w, o, nullptr, nullptr, ptr[o], nullptr, m.calls)
    /\ UNCHANGED <<family, held, hvars>>

PMoveAssign(w, o) ==
    /\ family = "pointer"
    /\ Ready
    /\ w \in pLive
    /\ o \in pLive
    /\ Movable(w, o)
    /\ LET m == generic_smart_ptr_move_assign(ptr[w], ptr[o], w = o)
       IN /\ ptr' = [[ptr EXCEPT ![o] = m.other] EXCEPT ![w] = m.p]
          /\ refs' = PtrPolicy(m.calls, refs)
          /\ last' = Op("move_assign", w, o, nullptr, ptr[w], ptr[o], nullptr, m.calls)
    /\ UNCHANGED <<family, pLive, held, hvars>>

PAssignNull(w) ==
    /\ family = "pointer"
    /\ Ready
    /\ w \in pLive
    /\ LET s == generic_smart_ptr_assign_null(ptr[w])
       IN /\ ptr' = [ptr EXCEPT ![w] = s.p]
          /\ refs' = PtrPolicy(s.calls, refs)
          /\ last' = Op("assign_null", w, None, nullptr, ptr[w], nullptr, nullptr, s.calls)
    /\ UNCHANGED <<family, pLive, held, hvars>>

PRelease(w) ==
    /\ family = "pointer"
    /\ Ready
    /\ w \in pLive
    /\ ptr[w] # nullptr => held[ptr[w]] < MaxHeld
    /\ LET r == generic_smart_ptr_release(ptr[w])
       IN /\ ptr' = [ptr EXCEPT ![w] = r.p]
          /\ refs' = PtrPolicy(r.calls, refs)
          /\ held' = Take(r.ret)
          /\ last' = Op("release", w, None, nullptr, ptr[w], nullptr, r.ret, r.calls)
    /\ UNCHANGED <<family, pLive, hvars>>

PReset(w, q) ==
    /\ family = "pointer"
    /\ Ready
    /\ w \in pLive
    /\ Owned(w, q)
    /\ LET s == generic_smart_ptr_reset(ptr[w], q)
       IN /\ ptr' = [ptr EXCEPT ![w] = s.p]
          /\ refs' = PtrPolicy(s.calls, refs)
          /\ last' = [Op("reset", w, None, q, ptr[w], nullptr, nullptr, s.calls)
                          EXCEPT !.seen = s.seen]
    /\ held' = Give(q)
    /\ UNCHANGED <<family, pLive, hvars>>

PDtor(w) ==
    /\ family = "pointer"
    /\ ScopeEnds(w)
    /\ w \in pLive
    /\ LET d == generic_smart_ptr_dtor(ptr[w])
       IN /\ pLive' = pLive \ {w}
          /\ ptr' = [ptr EXCEPT ![w] = nullptr]
          /\ refs' = PtrPolicy(d.calls, refs)
          /\ last' = [Op("dtor", w, None, nullptr, ptr[w], nullptr, nullptr, d.calls)
                          EXCEPT !.seen = d.seen]
    /\ UNCHANGED <<family, held, hvars>>

PSwap(w, o) ==
    /\ family = "pointer"
    /\ Ready
    /\ w \in pLive
    /\ o \in pLive
    /\ Kind(w) = Kind(o)
    /\ LET s == generic_smart_ptr_swap(ptr[w], ptr[o])
       IN /\ ptr' = [[ptr EXCEPT ![o] = s.b] EXCEPT ![w] = s.a]
          /\ refs' = PtrPolicy(s.calls, refs)
          /\ last' = Op("swap", w, o, nullptr, ptr[w], ptr[o], nullptr, s.calls)
    /\ UNCHANGED <<family, pLive, held, hvars>>

SCopyCtor(w, o) ==
    /\ family = "pointer"
    /\ Ready
    /\ w \in SharedWrappers
    /\ Free(w)
    /\ o \in SharedWrappers \cap pLive
    /\ LET c == generic_shared_ptr_copy_ctor(ptr[o])
       IN /\ pLive' = pLive \cup {w}
          /\ ptr' = [ptr EXCEPT ![w] = c.p]
          /\ refs' = PtrPolicy(c.calls, refs)
          /\ last' = Op("copy_ctor", w, o, nullptr, nullptr, ptr[o], nullptr, c.calls)
    /\ UNCHANGED <<family, held, hvars>>

SCopyAssign(w, o) ==
    /\ family = "pointer"
    /\ Ready
    /\ w \in SharedWrappers \cap pLive
    /\ o \in SharedWrappers \cap pLive
    /\ LET c == generic_shared_ptr_copy_assign(ptr[w], ptr[o])
       IN /\ ptr' = [ptr EXCEPT ![w] = c.p]
          /\ refs' = PtrPolicy(c.calls, refs)
          /\ last' = Op("copy_assign", w, o, nullptr, ptr[w], ptr[o], nullptr, c.calls)
    /\ UNCHANGED <<family, pLive, held, hvars>>

\* add_ref is reached, and so can fail, only for a non-null pointer
SCopyCtorThrows(w, o) ==
    /\ family = "pointer"
    /\ Ready
    /\ w \in SharedWrappers
    /\ Free(w)
    /\ o \in SharedWrappers \cap pLive
    /\ ptr[o] # nullptr
    /\ LET c == generic_shared_ptr_copy_ctor_throws(ptr[o])
       IN /\ refs' = PtrPolicy(c.calls, refs)
          /\ last' = Op("copy_ctor_throws", w, o, nullptr, nullptr, ptr[o], nullptr, c.calls)
    /\ UNCHANGED <<family, pLive, ptr, held, hvars>>

SCopyAssignThrows(w, o) ==
    /\ family = "pointer"
    /\ Ready
    /\ w \in SharedWrappers \cap pLive
    /\ o \in SharedWrappers \cap pLive
    /\ ptr[o] # nullptr
    /\ LET c == generic_shared_ptr_copy_assign_throws(ptr[w], ptr[o])
       IN /\ ptr' = [ptr EXCEPT ![w] = c.p]
          /\ refs' = PtrPolicy(c.calls, refs)
          /\ last' = Op("copy_assign_throws", w, o, nullptr, ptr[w], ptr[o], nullptr, c.calls)
    /\ UNCHANGED <<family, pLive, held, hvars>>

\* use_count() of the policy is only documented for an object
SUseCount(w) ==
    /\ family = "pointer"
    /\ Ready
    /\ w \in SharedWrappers \cap pLive
    /\ ptr[w] # nullptr
    /\ LET u == generic_shared_ptr_use_count(refs, ptr[w])
       IN /\ refs' = PtrPolicy(u.calls, refs)
          /\ last' = Op("use_count", w, None, nullptr, ptr[w], nullptr, u.ret, u.calls)
    /\ UNCHANGED <<family, pLive, ptr, held, hvars>>

SStaticCast(w, o) ==
    /\ family = "pointer"
    /\ Ready
    /\ w \in SharedWrappers
    /\ Free(w)
    /\ o \in SharedWrappers \cap pLive
    /\ LET c == static_pointer_cast(ptr[o])
       IN /\ pLive' = pLive \cup {w}
          /\ ptr' = [ptr EXCEPT ![w] = c.p]
          /\ refs' = PtrPolicy(c.calls, refs)
          /\ last' = Op("static_pointer_cast", w, o, nullptr, nullptr, ptr[o], nullptr, c.calls)
    /\ UNCHANGED <<family, held, hvars>>

SConstCast(w, o) ==
    /\ family = "pointer"
    /\ Ready
    /\ w \in SharedWrappers
    /\ Free(w)
    /\ o \in SharedWrappers \cap pLive
    /\ LET c == const_pointer_cast(ptr[o])
       IN /\ pLive' = pLive \cup {w}
          /\ ptr' = [ptr EXCEPT ![w] = c.p]
          /\ refs' = PtrPolicy(c.calls, refs)
          /\ last' = Op("const_pointer_cast", w, o, nullptr, nullptr, ptr[o], nullptr, c.calls)
    /\ UNCHANGED <<family, held, hvars>>

\* w == nullptr, nullptr == w, w != nullptr, nullptr != w and bool(w)
PNullCompare(w) ==
    /\ family = "pointer"
    /\ Ready
    /\ w \in pLive
    /\ last' = Op("null_compare", w, None, nullptr, ptr[w], nullptr,
                  [eq_right |-> eq_nullptr_right(ptr[w]),
                   eq_left |-> eq_nullptr_left(ptr[w]),
                   ne_right |-> ne_nullptr_right(ptr[w]),
                   ne_left |-> ne_nullptr_left(ptr[w]),
                   bool |-> generic_smart_ptr_bool(ptr[w]),
                   get |-> generic_smart_ptr_get(ptr[w])], <<>>)
    /\ UNCHANGED <<family, pvars, hvars>>

PNext ==
    \/ \E q \in Ptrs : Acquire(q)
    \/ \E w \in PtrWrappers : PDefaultCtor(w)
    \/ \E w \in PtrWrappers, q \in Ptrs \cup {nullptr} : PCtor(w, q)
    \/ \E w, o \in PtrWrappers : PMoveCtor(w, o)
    \/ \E w, o \in PtrWrappers : PMoveAssign(w, o)
    \/ \E w \in PtrWrappers : PAssignNull(w)
    \/ \E w \in PtrWrappers : PRelease(w)
    \/ \E w \in PtrWrappers, q \in Ptrs \cup {nullptr} : PReset(w, q)
    \/ \E w \in PtrWrappers : PDtor(w)
    \/ \E w, o \in PtrWrappers : PSwap(w, o)
    \/ \E w, o \in SharedWrappers : SCopyCtor(w, o)
    \/ \E w, o \in SharedWrappers : SCopyAssign(w, o)
    \/ \E w \in SharedWrappers : SUseCount(w)
    \/ \E w, o \in SharedWrappers : SStaticCast(w, o)
    \/ \E w, o \in SharedWrappers : SConstCast(w, o)
    \/ \E w \in PtrWrappers : PNullCompare(w)

Init ==
    /\ family \in {"handle", "pointer"}
    /\ hLive = {}
    /\ obj = [w \in HandleWrappers |-> HandleNull]
    /\ open = {}
    /\ hAliased = FALSE
    /\ hHeld = {}
    /\ pLive = {}
    /\ ptr = [w \in PtrWrappers |-> nullptr]
    /\ refs = [q \in Ptrs |-> 0]
    /\ held = [q \in Ptrs |-> 0]
    /\ last = NoOp

Next == HNext \/ PNext \/ NextStatement

Spec == Init /\ [][Next]_vars

\* the same program with a policy whose add_ref can raise a failure
ThrowNext ==
    \/ \E w, o \in SharedWrappers : SCopyCtorThrows(w, o)
    \/ \E w, o \in SharedWrappers : SCopyAssignThrows(w, o)

SpecThrow == Init /\ [][Next \/ ThrowNext]_vars
\* ---- what the claims speak about ----
Null(w) == IF Kind(w) = "handle" THEN HandleNull ELSE nullptr

Val(w) == IF Kind(w) = "handle" THEN unique_handle_get(obj[w]) ELSE generic_smart_ptr_get(ptr[w])

ValNext(w) == IF Kind(w) = "handle" THEN unique_handle_get(obj'[w]) ELSE generic_smart_ptr_get(ptr'[w])

\* what release() would return on w now
ReleaseRet(w) ==
    IF Kind(w) = "handle" THEN unique_handle_release(obj[w]).ret
    ELSE generic_smart_ptr_release(ptr[w]).ret

ReleaseOnce(v) == <<Call("release", v)>>

AddRefOnce(v) == <<Call("add_ref", v)>>

ReleaseIfHeld(w, v) == IF v # Null(w) THEN ReleaseOnce(v) ELSE <<>>

\* C1: a wrapper of any kind constructed from a non-null value v and destroyed
\* by the very next operation makes no policy call in the constructor and
\* exactly one in the destructor, release(v).
C1_ConstructThenDestroy ==
    [][(/\ last.op = "ctor"
        /\ last.arg # Null(last.a)
        /\ last'.op = "dtor"
        /\ last'.a = last.a)
       => (/\ last.calls = <<>>
           /\ last'.pre = last.arg
           /\ last'.calls = ReleaseOnce(last.arg))]_vars

C1_Witness ==
    /\ last.op = "dtor"
    /\ last.pre # Null(last.a)
    /\ last.calls = ReleaseOnce(last.pre)
    /\ Kind(last.a) = "shared"

\* C2 as claimed: a move construction or move assignment makes no policy call
\* at all, leaves the source null, and release() on the destination returns
\* the source's original value.
C2_MoveNeverCallsPolicy ==
    last.op \in {"move_ctor", "move_assign"}
    => (/\ last.calls = <<>>
        /\ Val(last.b) = Null(last.b)
        /\ ReleaseRet(last.a) = last.preb)

\* C2 amended: a move construction makes no policy call; a move assignment
\* between two distinct wrappers makes no add_ref and exactly one release, on
\* the destination's previous value, when that value is non-null, and no call
\* otherwise; in both the source ends null and release() on the destination
\* returns the source's original value.
C2_MoveTransfers ==
    /\ last.op = "move_ctor"
       => (/\ last.calls = <<>>
           /\ Val(last.b) = Null(last.b)
           /\ ReleaseRet(last.a) = last.preb)
    /\ (last.op = "move_assign" /\ last.a # last.b)
       => (/\ last.calls = ReleaseIfHeld(last.a, last.pre)
           /\ Val(last.b) = Null(last.b)
           /\ ReleaseRet(last.a) = last.preb)

C2_Witness ==
    /\ last.op = "move_assign"
    /\ last.a # last.b
    /\ last.pre # Null(last.a)
    /\ last.preb # Null(last.b)
    /\ last.pre # last.preb
    /\ last.calls = ReleaseOnce(last.pre)
    /\ Val(last.a) = last.preb

C4_CountMatchesOwners ==
    family = "pointer"
    => \A q \in Ptrs : refs[q] = Cardinality(Holders(q)) + held[q]

C4_Witness ==
    /\ last.op = "copy_assign"
    /\ last.pre # nullptr
    /\ last.preb # nullptr
    /\ last.pre # last.preb
    /\ Cardinality(Holders(last.preb)) = 2
    /\ held[last.preb] = 1
    /\ refs[last.preb] = 3

\* C5: copy self-assignment a = a of a generic_shared_ptr leaves a.get() and
\* the external reference counts as they were before the assignment.
C5_CopySelfAssign ==
    [][(last'.op = "copy_assign" /\ last'.a = last'.b)
       => (/\ ValNext(last'.a) = Val(last'.a)
           /\ ValNext(last'.a) = last'.pre
           /\ refs' = refs)]_vars

C5_Witness ==
    /\ last.op = "copy_assign"
    /\ last.a = last.b
    /\ last.pre # nullptr
    /\ ptr[last.a] = last.pre
    /\ last.calls = AddRefOnce(last.pre) \o ReleaseOnce(last.pre)

\* C6: reset() with the default null argument followed at once by destruction
\* of the same wrapper calls release at most once in total: once in reset()
\* when the wrapper held a non-null value, and never in the destructor.
C6_ResetThenDestroy ==
    [][(/\ last.op = "reset"
        /\ last.arg = Null(last.a)
        /\ last'.op = "dtor"
        /\ last'.a = last.a)
       => (/\ last.calls = ReleaseIfHeld(last.a, last.pre)
           /\ last'.calls = <<>>
           /\ Len(last.calls) + Len(last'.calls) <= 1)]_vars

C6_Witness ==
    /\ last.op = "reset"
    /\ last.arg = Null(last.a)
    /\ last.pre # Null(last.a)
    /\ last.calls = ReleaseOnce(last.pre)
    /\ Val(last.a) = Null(last.a)
    /\ Kind(last.a) = "handle"

\* C7: no two live generic_unique_ptr hold the same non-null pointer (every
\* raw pointer given to a constructor or reset() is held by no wrapper).
C7_ExclusiveOwner ==
    \A w, o \in UniqueWrappers \cap pLive :
        (w # o /\ ptr[w] = ptr[o]) => ptr[w] = nullptr

C7_Witness ==
    /\ last.op = "move_assign"
    /\ Kind(last.a) = "unique"
    /\ last.a # last.b
    /\ last.pre # nullptr
    /\ last.preb # nullptr
    /\ ptr[last.a] = last.preb
    /\ ptr[last.b] = nullptr

\* C8 as claimed: when every value given to the unique_handle constructor or
\* to reset() is null or a live handle at the moment of the call, every stored
\* value is null or a live handle.
C8_StoredHandleLive ==
    \A w \in hLive : obj[w] = HandleNull \/ obj[w] \in open

\* C8 amended: when every value given to the unique_handle constructor or to
\* reset() is null or a live handle that no wrapper holds at the moment of the
\* call (the wrapper being reset included), every stored value is null or a
\* live handle.
C8_StoredHandleLiveUnlessAliased ==
    ~ hAliased => \A w \in hLive : obj[w] = HandleNull \/ obj[w] \in open

C8_Witness ==
    /\ ~ hAliased
    /\ last.op = "reset"
    /\ Kind(last.a) = "handle"
    /\ last.pre # HandleNull
    /\ last.arg # HandleNull
    /\ obj[last.a] = last.arg
    /\ last.arg \in open
    /\ last.pre \notin open

\* C9: release() returns the stored value, leaves the wrapper null and makes
\* no policy call; a wrapper destroyed right after release() makes no policy
\* call either.
C9_ReleaseHandsOver ==
    [][/\ last'.op = "release"
          => (/\ last'.ret = Val(last'.a)
              /\ ValNext(last'.a) = Null(last'.a)
              /\ last'.calls = <<>>)
       /\ (last.op = "release" /\ last'.op = "dtor" /\ last'.a = last.a)
          => last'.calls = <<>>]_vars

C9_Witness ==
    /\ last.op = "release"
    /\ last.pre # Null(last.a)
    /\ last.ret = last.pre
    /\ Val(last.a) = Null(last.a)
    /\ last.calls = <<>>

\* C10: w == nullptr and nullptr == w are true exactly when w.get() is null,
\* w != nullptr and nullptr != w exactly when w.get() is non-null.
C10_NullComparison ==
    last.op = "null_compare"
    => (/\ last.ret.eq_right = (last.ret.get = nullptr)
        /\ last.ret.eq_left = (last.ret.get = nullptr)
        /\ last.ret.ne_right = (last.ret.get # nullptr)
        /\ last.ret.ne_left = (last.ret.get # nullptr)
        /\ last.ret.bool = (last.ret.get # nullptr))

\* C11: swap exchanges the two stored values (a.swap(a) leaves a as it was)
\* and calls neither release nor add_ref, for every wrapper kind.
C11_SwapExchanges ==
    last.op = "swap"
    => (/\ Val(last.a) = last.preb
        /\ Val(last.b) = last.pre
        /\ last.calls = <<>>)

C11_Witness ==
    /\ last.op = "swap"
    /\ last.a # last.b
    /\ last.pre # Null(last.a)
    /\ last.preb # Null(last.b)
    /\ last.pre # last.preb
    /\ Val(last.a) = last.preb
    /\ Val(last.b) = last.pre

\* C14: static_pointer_cast and const_pointer_cast of a generic_shared_ptr r
\* give a new wrapper with r's address, leave r as it was, call add_ref once
\* on that pointer when it is non-null and nothing when it is null, and never
\* release.
C14_CastAddsOneReference ==
    last.op \in {"static_pointer_cast", "const_pointer_cast"}
    => (/\ last.a \in pLive
        /\ ptr[last.a] = last.preb
        /\ ptr[last.b] = last.preb
        /\ last.calls = (IF last.preb # nullptr THEN AddRefOnce(last.preb) ELSE <<>>))

C14_Witness ==
    /\ last.op = "static_pointer_cast"
    /\ last.preb # nullptr
    /\ ptr[last.a] = last.preb
    /\ ptr[last.b] = last.preb
    /\ last.calls = AddRefOnce(last.preb)

UniqueIntoShared(l) ==
    /\ l.op \in {"move_ctor", "move_assign"}
    /\ Kind(l.a) = "shared"
    /\ Kind(l.b) = "unique"
    /\ l.preb # nullptr

NoAddRef(calls) == \A i \in DOMAIN calls : calls[i].f # "add_ref"

PolicyNull == IF family = "handle" THEN HandleNull ELSE nullptr

\* C15: no operation ever calls the policy's release or add_ref with the
\* null sentinel (unique_handle) or a null pointer (pointer wrappers).
C15_PolicyNeverSeesNull ==
    \A i \in DOMAIN last.calls :
        last.calls[i].f \in {"release", "add_ref"} => last.calls[i].arg # PolicyNull

C15_Witness ==
    /\ last.op = "copy_assign"
    /\ last.pre # nullptr
    /\ last.preb = nullptr
    /\ last.calls = ReleaseOnce(last.pre)
    /\ ptr[last.a] = nullptr

\* C17 as claimed: every single operation makes at most one policy callback.
C17_AtMostOneCallback == Len(last.calls) <= 1

\* C17 amended: every single operation makes at most one policy callback,
\* except the copy assignment of generic_shared_ptr, which makes up to two:
\* add_ref on the source's pointer, then release on the destination's previous
\* pointer.
C17_AtMostOneCallbackButCopyAssign ==
    /\ last.op # "copy_assign" => Len(last.calls) <= 1
    /\ last.op = "copy_assign"
       => last.calls = (IF last.preb # nullptr THEN AddRefOnce(last.preb) ELSE <<>>)
                       \o (IF last.pre # nullptr THEN ReleaseOnce(last.pre) ELSE <<>>)

C17_Witness ==
    /\ last.op = "copy_assign"
    /\ last.a # last.b
    /\ last.pre # nullptr
    /\ last.preb # nullptr
    /\ last.pre # last.preb
    /\ Len(last.calls) = 2

\* C20: move self-assignment a = std::move(a) leaves a with the value it had
\* and calls neither release nor add_ref, for every wrapper kind.
C20_MoveSelfAssign ==
    (last.op = "move_assign" /\ last.a = last.b)
    => (/\ Val(last.a) = last.pre
        /\ last.calls = <<>>)

C20_Witness ==
    /\ last.op = "move_assign"
    /\ last.a = last.b
    /\ last.pre # Null(last.a)
    /\ Val(last.a) = last.pre
    /\ last.calls = <<>>
    /\ Kind(last.a) = "unique"

PtrResetOrDtor(l) ==
    /\ l.op \in {"reset", "dtor"}
    /\ Kind(l.a) \in {"unique", "shared"}
    /\ l.pre # nullptr

\* C16 as claimed: on destruction and on reset(ptr) of a pointer wrapper
\* holding a non-null pointer, release runs exactly once on the old pointer
\* and get() already returns null while the release callback runs.
C16_SlotClearedFirst ==
    PtrResetOrDtor(last)
    => (/\ last.calls = ReleaseOnce(last.pre)
        /\ last.seen = <<nullptr>>)

\* C16 amended: release runs exactly once on the old pointer; while the
\* callback runs, get() returns the new pointer in reset(ptr) (null only for
\* reset() / reset(nullptr)) and still the old pointer in the destructor.
C16_SlotOverwrittenFirst ==
    PtrResetOrDtor(last)
    => (/\ last.calls = ReleaseOnce(last.pre)
        /\ last.op = "reset" => last.seen = <<last.arg>>
        /\ last.op = "dtor" => last.seen = <<last.pre>>)

C16_Witness ==
    /\ PtrResetOrDtor(last)
    /\ last.op = "reset"
    /\ last.arg # nullptr
    /\ last.arg # last.pre
    /\ last.calls = ReleaseOnce(last.pre)
    /\ last.seen = <<last.arg>>
    /\ ptr[last.a] = last.arg

\* the count of q after the first k callbacks of calls, relative to its start
RunningCount(calls, q, k) ==
    PtrPolicy(SubSeq(calls, 1, k), [x \in Ptrs |-> 0])[q]

\* C18: in copy assignment a = b of generic_shared_ptr the add_ref on b's
\* pointer (if non-null) comes before the release of a's previous pointer (if
\* non-null), that pointer is released exactly once, and when a and b hold the
\* same object its count never drops below its starting value on the way.
C18_AddRefBeforeRelease ==
    last.op = "copy_assign"
    => LET c == last.calls
           adds == {i \in DOMAIN c : c[i].f = "add_ref"}
           rels == {i \in DOMAIN c : c[i].f = "release"}
       IN /\ \A i \in adds : c[i].arg = last.preb
          /\ \A i \in rels : c[i].arg = last.pre
          /\ Cardinality(adds) = (IF last.preb # nullptr THEN 1 ELSE 0)
          /\ Cardinality(rels) = (IF last.pre # nullptr THEN 1 ELSE 0)
          /\ \A i \in adds, j \in rels : i < j
          /\ (last.pre = last.preb /\ last.pre # nullptr)
             => \A k \in 0 .. Len(c) : RunningCount(c, last.pre, k) >= 0

C18_Witness ==
    /\ last.op = "copy_assign"
    /\ last.a # last.b
    /\ last.pre = last.preb
    /\ last.pre # nullptr
    /\ last.calls = AddRefOnce(last.pre) \o ReleaseOnce(last.pre)
    /\ refs[last.pre] = 2
    /\ RunningCount(last.calls, last.pre, 1) = 1

\* every release callback of the step closes a handle that is open when the
\* callback runs
HandleReleasedOnce ==
    \A i \in DOMAIN last'.calls :
        last'.calls[i].f = "release"
        => last'.calls[i].arg \in HandlePolicy(SubSeq(last'.calls, 1, i - 1), open)

\* every release callback of the step gives up a reference that a wrapper
\* owns, never one still in the caller's hands
ReferenceReleasedOnce ==
    \A i \in DOMAIN last'.calls :
        last'.calls[i].f = "release"
        => LET q == last'.calls[i].arg
           IN PtrPolicy(SubSeq(last'.calls, 1, i - 1), refs)[q] > held[q]

\* C19: no leak and no double release for the exclusive wrappers.  When every
\* value handed to a constructor or to reset() is a fresh resource, no
\* operation releases a resource that is already released, and once all
\* wrappers are destroyed every resource handed to one and not returned by
\* release() has been released: the only open handles (references) left are
\* the ones in the caller's hands.
C19_NoLeakNoDoubleRelease ==
    [][/\ (family' = "handle" /\ ~ hAliased')
          => /\ HandleReleasedOnce
             /\ hLive' = {} => open' = hHeld'
       /\ family' = "pointer"
          => /\ ReferenceReleasedOnce
             /\ pLive' = {} => refs' = held']_vars

C19_Witness ==
    /\ family = "handle"
    /\ ~ hAliased
    /\ hLive = {}
    /\ last.op = "dtor"
    /\ last.pre # HandleNull
    /\ last.calls = ReleaseOnce(last.pre)
    /\ last.pre \notin open
    /\ hHeld # {}
    /\ open = hHeld

\* C13: if add_ref fails during copy assignment of a generic_shared_ptr, *this
\* still holds its previous pointer and no release has been invoked on that
\* previous pointer.
C13_FailedCopyAssignLeavesThis ==
    last.op = "copy_assign_throws"
    => (/\ ptr[last.a] = last.pre
        /\ \A i \in DOMAIN last.calls :
              ~ (last.calls[i].f = "release" /\ last.calls[i].arg = last.pre))

\* C21: if add_ref fails while copy-constructing or copy-assigning from a
\* generic_shared_ptr that holds P, no release is invoked on P as a result of
\* the failed copy, and P's count is the same after the failure as before the
\* copy was attempted.
C21_FailedCopyReleasesNothing ==
    Thrown
    => (/\ \A i \in DOMAIN last.calls :
              ~ (last.calls[i].f = "release" /\ last.calls[i].arg = last.preb)
        /\ RunningCount(last.calls, last.preb, Len(last.calls)) = 0)
====
